---- MODULE Spec2Model ----
(***************************************************************************)
(* Model of src/analysis.py: the monthly fund pipeline                     *)
(*   fetch_data -> process_analysis -> compute_transitions -> summary.     *)
(* Tables are pandas DataFrames: an ordered row index (dates), an ordered  *)
(* column list (tickers) and one cell per (date, ticker).  Every numeric   *)
(* cell is an exact rational <<n, d>> (d > 0, lowest terms) or NaN, which  *)
(* is <<0, 0>>; floating-point rounding is not modelled.                   *)
(***************************************************************************)
EXTENDS Integers, Sequences, FiniteSets, TLC

\* ------------------------------------------------------------- bounds
\* Prices an instrument can trade at after the lag window: 1..MaxPrice.
MaxPrice == 3
\* Number of monthly rows after the first Lag rows of the calendar.
ExtraRows == 4

\* ------------------------------------------------- program constants
\* pct_change(12, ...): the trailing window, in rows.
Lag == 12
\* num_buckets = 3
num_buckets == 3
\* if len(temp_df) < 3: continue
MinFunds == 3
\* pd.qcut(..., duplicates='drop')
duplicates == "drop"

\* The module-level ticker list.  A ticker is named by its alphabetical
\* rank, so that the list order (not alphabetical in the source either)
\* differs from the order sort_values(['ticker', ...]) gives.
tickers == <<2, 3, 1, 4>>

\* Last month of the calendar the provider can return.
NDates == Lag + ExtraRows

\* ------------------------------------------------------ exact numbers
NaN == <<0, 0>>
IsNaN(x) == x[2] = 0

Abs(n) == IF n < 0 THEN -n ELSE n

RECURSIVE GCD(_, _)
GCD(a, b) == IF b = 0 THEN a ELSE GCD(b, a % b)

\* The rational n/d (d > 0) in lowest terms.
Rat(n, d) == LET g == GCD(Abs(n), d) IN <<n \div g, d \div g>>

One == <<1, 1>>
Zero == <<0, 1>>

\* Arithmetic on cells: a missing operand gives a missing result.
RatAdd(x, y) ==
    IF IsNaN(x) \/ IsNaN(y) THEN NaN
    ELSE Rat(x[1] * y[2] + y[1] * x[2], x[2] * y[2])

RatSub(x, y) ==
    IF IsNaN(x) \/ IsNaN(y) THEN NaN
    ELSE Rat(x[1] * y[2] - y[1] * x[2], x[2] * y[2])

RatMul(x, y) ==
    IF IsNaN(x) \/ IsNaN(y) THEN NaN
    ELSE Rat(x[1] * y[1], x[2] * y[2])

\* Prices are positive, so a divisor is never zero or negative here.
RatDiv(x, y) ==
    IF IsNaN(x) \/ IsNaN(y) \/ y[1] <= 0 THEN NaN
    ELSE Rat(x[1] * y[2], x[2] * y[1])

\* Comparisons with NaN are false, as for floats.
RatLt(x, y) == ~IsNaN(x) /\ ~IsNaN(y) /\ x[1] * y[2] < y[1] * x[2]
RatLe(x, y) == ~IsNaN(x) /\ ~IsNaN(y) /\ x[1] * y[2] <= y[1] * x[2]

\* ---------------------------------------------------------- sequences
Range(s) == {s[j] : j \in DOMAIN s}

Min(S) == CHOOSE m \in S : \A n \in S : m <= n

RECURSIVE SetToSortedSeq(_)
SetToSortedSeq(S) ==
    IF S = {} THEN <<>>
    ELSE <<Min(S)>> \o SetToSortedSeq(S \ {Min(S)})

Pos(s, e) == CHOOSE r \in DOMAIN s : s[r] = e

Reverse(s) == [j \in 1..Len(s) |-> s[Len(s) + 1 - j]]

RECURSIVE SumRat(_)
SumRat(s) == IF s = <<>> THEN Zero ELSE RatAdd(s[1], SumRat(Tail(s)))

\* ------------------------------------------------------------- tables
\* pd.DataFrame(): no rows, no columns.
EmptyFrame == [index |-> <<>>, columns |-> <<>>, val |-> <<>>]

\* DataFrame.empty: some axis has length 0.
IsEmpty(df) == Len(df.index) = 0 \/ Len(df.columns) = 0

\* pd.DataFrame(all_series): one column per dict entry in insertion order,
\* rows the sorted union of the series' dates, NaN where a series has none.
DataFrame(series) ==
    LET dates == UNION {DOMAIN series[j].data : j \in DOMAIN series}
        cols == [j \in DOMAIN series |-> series[j].ticker]
        of(t) == series[Pos(cols, t)].data
    IN [index |-> SetToSortedSeq(dates),
        columns |-> cols,
        val |-> [d \in dates |-> [t \in Range(cols) |->
                    IF d \in DOMAIN of(t) THEN <<of(t)[d], 1>> ELSE NaN]]]

\* DataFrame.pct_change(periods, fill_method=None): cell / cell `periods`
\* rows above - 1; the shift is by row position, not by calendar month.
PctChange(df, periods) ==
    [df EXCEPT !.val = [d \in Range(df.index) |-> [t \in Range(df.columns) |->
        LET r == Pos(df.index, d) IN
        IF r <= periods THEN NaN
        ELSE RatSub(RatDiv(df.val[d][t], df.val[df.index[r - periods]][t]), One)]]]

\* DataFrame.dropna(how='all'): drop the rows whose every cell is NaN.
DropnaAll(df) ==
    LET keep(d) == \E t \in Range(df.columns) : ~IsNaN(df.val[d][t])
        idx == SelectSeq(df.index, keep)
    IN [index |-> idx,
        columns |-> df.columns,
        val |-> [d \in Range(idx) |-> df.val[d]]]

\* returns = prices.pct_change(fill_method=None).dropna(how='all')
Returns(p) == DropnaAll(PctChange(p, 1))

\* A trailing window of one row: pct_change() in place of pct_change(12).
Trailing12mOneRow(p) == DropnaAll(PctChange(p, 1))

\* trailing_12m = prices.pct_change(12, fill_method=None).dropna(how='all')
Trailing12m(p) == DropnaAll(PctChange(p, Lag))

\* ------------------------------------------------- the data provider
\* What yf.download can return for one ticker: a monthly series that
\* trades at 1 through month Lag and then alternates between `a` (months
\* Lag + 1, Lag + 3, ...) and `b` (months Lag + 2, ...), over one of four
\* calendars: every month ("full"); launched so late that only the last
\* two months have a price 12 months before them ("late"); the months
\* between the first ExtraRows and month Lag + 1 missing ("gap"); launched
\* in month Lag + 1 ("short").
ShapeDates(shape) ==
    CASE shape = "full" -> 1..NDates
      [] shape = "late" -> (ExtraRows - 1)..NDates
      [] shape = "gap" -> (1..ExtraRows) \cup ((Lag + 1)..NDates)
      [] shape = "short" -> (Lag + 1)..NDates

SeriesOf(shape, a, b) ==
    [d \in ShapeDates(shape) |->
        IF d <= Lag THEN 1 ELSE IF (d - Lag) % 2 = 1 THEN a ELSE b]

\* A complete history either stays at `a` or swings between `a` and 1;
\* an incomplete one never moves.
SeriesChoices ==
    UNION {{SeriesOf("full", a, a), SeriesOf("full", a, 1)} : a \in 1..MaxPrice}
    \cup {SeriesOf(sh, 1, 1) : sh \in {"late", "gap", "short"}}

VARIABLES
    pc,            \* where the script is
    i,             \* fetch_data: position in tickers of the next download
    outcome,       \* what the provider did for each position of tickers
    all_series,    \* fetch_data: the dict, as its entries in insertion order
    prices,        \* the price table fetch_data returned
    returns,       \* process_analysis: monthly returns
    trailing_12m,  \* process_analysis: trailing 12-month returns
    k,             \* process_analysis: position in trailing_12m.index
    analysis_df,   \* process_analysis: the records appended so far
    analysis,      \* the table process_analysis returned
    transitions,   \* the table compute_transitions returned
    summary,       \* the per-bucket means
    files          \* the CSV files written, in order

vars == <<pc, i, outcome, all_series, prices, returns, trailing_12m, k,
          analysis_df, analysis, transitions, summary, files>>

Init ==
    /\ pc = "fetch"
    /\ i = 1
    /\ outcome = [j \in DOMAIN tickers |-> "pending"]
    /\ all_series = <<>>
    /\ prices = EmptyFrame
    /\ returns = EmptyFrame
    /\ trailing_12m = EmptyFrame
    /\ k = 1
    /\ analysis_df = <<>>
    /\ analysis = <<>>
    /\ transitions = <<>>
    /\ summary = <<>>
    /\ files = <<>>

\* ---------------------------------------------------------- fetch_data
\* The download raises and the loop stops at this ticker.
FetchRaisesAborts ==
    /\ pc = "fetch" /\ i <= Len(tickers)
    /\ outcome' = [outcome EXCEPT ![i] = "raise"]
    /\ i' = Len(tickers) + 1
    /\ UNCHANGED <<pc, all_series, prices, returns, trailing_12m, k,
                   analysis_df, analysis, transitions, summary, files>>

\* yf.download raises: caught by `except Exception`, the ticker is skipped.
FetchRaises ==
    /\ pc = "fetch" /\ i <= Len(tickers)
    /\ outcome' = [outcome EXCEPT ![i] = "raise"]
    /\ i' = i + 1
    /\ UNCHANGED <<pc, all_series, prices, returns, trailing_12m, k,
                   analysis_df, analysis, transitions, summary, files>>

\* yf.download returns an empty frame: `if not df.empty` skips the ticker.
FetchEmpty ==
    /\ pc = "fetch" /\ i <= Len(tickers)
    /\ outcome' = [outcome EXCEPT ![i] = "empty"]
    /\ i' = i + 1
    /\ UNCHANGED <<pc, all_series, prices, returns, trailing_12m, k,
                   analysis_df, analysis, transitions, summary, files>>

\* yf.download returns data: all_series[t] = series.
FetchData ==
    /\ pc = "fetch" /\ i <= Len(tickers)
    /\ \E s \in SeriesChoices :
          all_series' = Append(all_series, [ticker |-> tickers[i], data |-> s])
    /\ outcome' = [outcome EXCEPT ![i] = "data"]
    /\ i' = i + 1
    /\ UNCHANGED <<pc, prices, returns, trailing_12m, k,
                   analysis_df, analysis, transitions, summary, files>>

\* The loop is over: return pd.DataFrame() or pd.DataFrame(all_series).
FetchReturn ==
    /\ pc = "fetch" /\ i > Len(tickers)
    /\ prices' = IF all_series = <<>> THEN EmptyFrame ELSE DataFrame(all_series)
    /\ pc' = "main"
    /\ UNCHANGED <<i, outcome, all_series, returns, trailing_12m, k,
                   analysis_df, analysis, transitions, summary, files>>

\* --------------------------------------------------------------- qcut
RECURSIVE SortRat(_)
\* The values in ascending order (insertion sort).
SortRat(s) ==
    IF s = <<>> THEN <<>>
    ELSE LET rest == SortRat(Tail(s))
             lo == SelectSeq(rest, LAMBDA y : RatLe(y, s[1]))
             hi == SelectSeq(rest, LAMBDA y : RatLt(s[1], y))
         IN lo \o <<s[1]>> \o hi

\* Series.quantile(j / q), linear interpolation between the two order
\* statistics around position (n - 1) * j / q.
Quantile(sorted, j, q) ==
    LET h == (Len(sorted) - 1) * j
        lo == h \div q
        fr == h % q
    IN IF fr = 0 THEN sorted[lo + 1]
       ELSE RatAdd(sorted[lo + 1],
                   RatMul(RatSub(sorted[lo + 2], sorted[lo + 1]), Rat(fr, q)))

\* bins = x.quantile(np.linspace(0, 1, q + 1))
QuantileBins(x, q) == [j \in 1..(q + 1) |-> Quantile(SortRat(x), j - 1, q)]

RECURSIVE Unique(_)
\* algos.unique: the first occurrence of each value, in order.
Unique(s) ==
    IF s = <<>> THEN <<>>
    ELSE LET init == Unique(SubSeq(s, 1, Len(s) - 1))
         IN IF s[Len(s)] \in Range(init) THEN init ELSE Append(init, s[Len(s)])

\* _bins_to_cuts: duplicate edges raise ValueError unless duplicates='drop'.
QcutRaises(x, q) ==
    LET bins == QuantileBins(x, q) IN
    /\ Len(Unique(bins)) < Len(bins)
    /\ Len(bins) # 2
    /\ duplicates = "raise"

\* The edges _bins_to_cuts searches: the unique ones when some repeat.
CutBins(x, q) ==
    LET bins == QuantileBins(x, q) IN
    IF Len(Unique(bins)) < Len(bins) /\ Len(bins) # 2 THEN Unique(bins) ELSE bins

\* bins.searchsorted(v, side='right'): the number of edges <= v.
SearchSortedRight(bins, v) == Cardinality({j \in DOMAIN bins : RatLe(bins[j], v)})

\* bins.searchsorted(v, side='left'): the number of edges < v.
SearchSorted(bins, v) == Cardinality({j \in DOMAIN bins : RatLt(bins[j], v)})

\* Labels counted from the top bin down.
BinLabelDescending(bins, v) ==
    LET id == IF v = bins[1] THEN 1 ELSE SearchSorted(bins, v) IN
    IF id = Len(bins) \/ id = 0 THEN NaN ELSE <<Len(bins) - 1 - id, 1>>

\* _bins_to_cuts with right=True, include_lowest=True, labels=False:
\* ids = searchsorted; ids[x == bins[0]] = 1; NaN where ids is 0 or
\* len(bins); otherwise ids - 1.
BinLabel(bins, v) ==
    LET id == IF v = bins[1] THEN 1 ELSE SearchSorted(bins, v) IN
    IF id = Len(bins) \/ id = 0 THEN NaN ELSE <<id - 1, 1>>

\* pd.qcut(x, q, labels=False, duplicates='drop'): a label per value.
Qcut(x, q) == [j \in DOMAIN x |-> BinLabel(CutBins(x, q), x[j])]

\* ---------------------------------------------------- process_analysis
\* returns.index[returns.index > date]: the dates of index after date, in
\* order; its first element is next_date, and it is empty on IndexError.
LaterDates(index, date) == SelectSeq(index, LAMBDA d : d > date)

\* temp_df.dropna(): the tickers with both a signal at date and an outcome
\* at next_date, in column order.
Survivors(trailing, rets, date, next_date) ==
    SelectSeq(trailing.columns,
              LAMBDA t : /\ ~IsNaN(trailing.val[date][t])
                         /\ ~IsNaN(rets.val[next_date][t]))

\* The rows one iteration of the loop appends for `date`.
DateRecords(trailing, rets, date) ==
    LET later == LaterDates(rets.index, date) IN
    IF later = <<>> THEN <<>>                      \* except IndexError: continue
    ELSE
      LET next_date == later[1]
          alive == Survivors(trailing, rets, date, next_date)
          signal == [j \in DOMAIN alive |-> trailing.val[date][alive[j]]]
      IN IF Len(alive) < MinFunds THEN <<>>          \* continue
         ELSE IF QcutRaises(signal, num_buckets) THEN <<>>  \* except ValueError
         ELSE [j \in DOMAIN alive |->
                 [date |-> date,
                  ticker |-> alive[j],
                  trailing_12m |-> signal[j],
                  next_month_ret |-> rets.val[next_date][alive[j]],
                  quintile |-> RatAdd(Qcut(signal, num_buckets)[j], One)]]

\* One iteration of `for date in trailing_12m.index[:-1]`.
ProcessDate ==
    /\ pc = "process" /\ k <= Len(trailing_12m.index) - 1
    /\ analysis_df' = analysis_df \o DateRecords(trailing_12m, returns, trailing_12m.index[k])
    /\ k' = k + 1
    /\ UNCHANGED <<pc, i, outcome, all_series, prices, returns, trailing_12m,
                   analysis, transitions, summary, files>>

\* After the loop: return pd.DataFrame() or pd.concat(analysis_df).
ProcessReturn ==
    /\ pc = "process" /\ k > Len(trailing_12m.index) - 1
    /\ analysis' = analysis_df
    /\ pc' = "analysed"
    /\ UNCHANGED <<i, outcome, all_series, prices, returns, trailing_12m, k,
                   analysis_df, transitions, summary, files>>

\* -------------------------------------------------- compute_transitions
\* Row order of sort_values(['ticker', 'date']).
KeyLe(a, b) == a.ticker < b.ticker \/ (a.ticker = b.ticker /\ a.date <= b.date)

RECURSIVE SortValues(_)
\* df.sort_values(['ticker', 'date']): a stable sort.
SortValues(df) ==
    IF df = <<>> THEN <<>>
    ELSE LET init == SortValues(SubSeq(df, 1, Len(df) - 1))
             x == df[Len(df)]
         IN SelectSeq(init, LAMBDA y : KeyLe(y, x)) \o <<x>>
            \o SelectSeq(init, LAMBDA y : ~KeyLe(y, x))

\* df['quintile'].shift(-1) without the groupby: the next row's bucket.
ShiftNoGroup(sorted, j) ==
    IF j < Len(sorted) THEN sorted[j + 1].quintile ELSE NaN

\* df.groupby('ticker')['quintile'].shift(-1) at row j: the bucket of the
\* next row of the same ticker, NaN for the last row of a ticker.
GroupShift(sorted, j) ==
    IF j < Len(sorted) /\ sorted[j + 1].ticker = sorted[j].ticker
    THEN sorted[j + 1].quintile
    ELSE NaN

\* sort, add next_quintile, dropna(subset=['next_quintile']).
ComputeTransitions(df) ==
    LET sorted == SortValues(df)
        shifted == [j \in DOMAIN sorted |->
                      [date |-> sorted[j].date,
                       ticker |-> sorted[j].ticker,
                       trailing_12m |-> sorted[j].trailing_12m,
                       next_month_ret |-> sorted[j].next_month_ret,
                       quintile |-> sorted[j].quintile,
                       next_quintile |-> GroupShift(sorted, j)]]
    IN SelectSeq(shifted, LAMBDA r : ~IsNaN(r.next_quintile))

\* -------------------------------------------------------------- summary
RECURSIVE SortedKeys(_)
SortedKeys(S) ==
    IF S = {} THEN <<>>
    ELSE LET m == CHOOSE x \in S : \A y \in S : RatLe(x, y)
         IN <<m>> \o SortedKeys(S \ {m})

\* Series.mean(): sum / count.
Mean(s) == RatDiv(SumRat(s), <<Len(s), 1>>)

\* The next_month_ret values of the rows of df whose quintile is q.
GroupReturns(df, q) ==
    LET rows == SelectSeq(df, LAMBDA r : r.quintile = q)
    IN [j \in DOMAIN rows |-> rows[j].next_month_ret]

\* analysis.groupby('quintile')['next_month_ret'].mean().reset_index():
\* one row per non-NaN key, keys ascending (groupby drops NaN keys).
Summarize(df) ==
    LET keys == SortedKeys({r.quintile : r \in {x \in Range(df) : ~IsNaN(x.quintile)}})
    IN [j \in DOMAIN keys |->
          [quintile |-> keys[j], next_month_ret |-> Mean(GroupReturns(df, keys[j]))]]

\* ----------------------------------------------------------------- main
\* prices.empty, but monthly_prices.csv is written all the same.
MainPricesEmptyStillSaves ==
    /\ pc = "main" /\ IsEmpty(prices)
    /\ files' = Append(files, "monthly_prices.csv")
    /\ pc' = "done"
    /\ UNCHANGED <<i, outcome, all_series, prices, returns, trailing_12m, k,
                   analysis_df, analysis, transitions, summary>>

\* if prices.empty: print(...) and nothing else.
MainPricesEmpty ==
    /\ pc = "main" /\ IsEmpty(prices)
    /\ pc' = "done"
    /\ UNCHANGED <<i, outcome, all_series, prices, returns, trailing_12m, k,
                   analysis_df, analysis, transitions, summary, files>>

\* prices.to_csv('monthly_prices.csv'), then process_analysis(prices) up
\* to the start of its loop.
MainSavePrices ==
    /\ pc = "main" /\ ~IsEmpty(prices)
    /\ files' = Append(files, "monthly_prices.csv")
    /\ returns' = Returns(prices)
    /\ trailing_12m' = Trailing12m(prices)
    /\ analysis_df' = <<>>
    /\ k' = 1
    /\ pc' = "process"
    /\ UNCHANGED <<i, outcome, all_series, prices, analysis, transitions, summary>>

\* if analysis.empty: print(...) and nothing else.
MainAnalysisEmpty ==
    /\ pc = "analysed" /\ analysis = <<>>
    /\ pc' = "done"
    /\ UNCHANGED <<i, outcome, all_series, prices, returns, trailing_12m, k,
                   analysis_df, analysis, transitions, summary, files>>

\* analysis.to_csv('monthly_analysis.csv', index=False)
MainSaveAnalysis ==
    /\ pc = "analysed" /\ analysis # <<>>
    /\ files' = Append(files, "monthly_analysis.csv")
    /\ pc' = "transitions"
    /\ UNCHANGED <<i, outcome, all_series, prices, returns, trailing_12m, k,
                   analysis_df, analysis, transitions, summary>>

\* transitions = compute_transitions(analysis); transitions.to_csv(...)
MainTransitions ==
    /\ pc = "transitions"
    /\ transitions' = ComputeTransitions(analysis)
    /\ files' = Append(files, "quintile_transitions.csv")
    /\ pc' = "summary"
    /\ UNCHANGED <<i, outcome, all_series, prices, returns, trailing_12m, k,
                   analysis_df, analysis, summary>>

\* summary = analysis.groupby('quintile')[...].mean(); summary.to_csv(...)
MainSummary ==
    /\ pc = "summary"
    /\ summary' = Summarize(analysis)
    /\ files' = Append(files, "quintile_performance_summary.csv")
    /\ pc' = "done"
    /\ UNCHANGED <<i, outcome, all_series, prices, returns, trailing_12m, k,
                   analysis_df, analysis, transitions>>

Next ==
    \/ FetchRaises
    \/ FetchEmpty
    \/ FetchData
    \/ FetchReturn
    \/ MainPricesEmpty
    \/ MainSavePrices
    \/ ProcessDate
    \/ ProcessReturn
    \/ MainAnalysisEmpty
    \/ MainSaveAnalysis
    \/ MainTransitions
    \/ MainSummary

Spec == Init /\ [][Next]_vars

\* ------------------------------------------------------------ properties
FilesOrder ==
    <<"monthly_prices.csv", "monthly_analysis.csv",
      "quintile_transitions.csv", "quintile_performance_summary.csv">>

Written(f) == f \in Range(files)

\* process_analysis has returned.
Analysed == pc \in {"analysed", "transitions", "summary", "done"} /\ Written("monthly_prices.csv")

\* The dates the loop visits that have a later returns date.
LoopDates ==
    {trailing_12m.index[r] : r \in 1..(Len(trailing_12m.index) - 1)}

HasNext(d) == \E e \in Range(returns.index) : e > d

NextReturnsDate(d) == Min({e \in Range(returns.index) : e > d})

\* Instruments with a signal at d and an outcome at the next returns date.
Alive(d) ==
    {t \in Range(trailing_12m.columns) :
        /\ ~IsNaN(trailing_12m.val[d][t])
        /\ ~IsNaN(returns.val[NextReturnsDate(d)][t])}

EligibleDates == {d \in LoopDates : HasNext(d) /\ Cardinality(Alive(d)) >= MinFunds}

RowsAt(tbl, d) == {j \in DOMAIN tbl : tbl[j].date = d}

RowsOf(tbl, d, t) == {j \in DOMAIN tbl : tbl[j].date = d /\ tbl[j].ticker = t}

Buckets == {<<b, 1>> : b \in 1..num_buckets}

ConstantSignal(d) ==
    \A t, u \in Alive(d) : trailing_12m.val[d][t] = trailing_12m.val[d][u]

\* C1: after process_analysis, every eligible date (a non-final trailing
\* date with at least 3 instruments having signal and outcome) has exactly
\* one record per surviving instrument, none for any other instrument, and
\* every such record's bucket is 1, 2 or 3.
C1_OneRecordPerSurvivorInBucket ==
    Analysed =>
        \A d \in EligibleDates :
            /\ \A t \in Alive(d) : Cardinality(RowsOf(analysis, d, t)) = 1
            /\ \A j \in RowsAt(analysis, d) :
                  /\ analysis[j].ticker \in Alive(d)
                  /\ analysis[j].quintile \in Buckets

\* C2: among the records of one date, a strictly higher trailing_12m never
\* has a strictly lower bucket.
C2_BucketMonotonic ==
    \A j1, j2 \in DOMAIN analysis_df :
        (/\ analysis_df[j1].date = analysis_df[j2].date
         /\ RatLt(analysis_df[j2].trailing_12m, analysis_df[j1].trailing_12m))
        => ~RatLt(analysis_df[j1].quintile, analysis_df[j2].quintile)

\* A date where two instruments tie, the quantile edges collapse, and a
\* third instrument with a higher signal sits in a higher bucket.
C2_Witness ==
    \E j1, j2, j3 \in DOMAIN analysis_df :
        /\ analysis_df[j1].date = analysis_df[j2].date
        /\ analysis_df[j1].date = analysis_df[j3].date
        /\ analysis_df[j1].ticker # analysis_df[j2].ticker
        /\ analysis_df[j1].trailing_12m = analysis_df[j2].trailing_12m
        /\ RatLt(analysis_df[j1].trailing_12m, analysis_df[j3].trailing_12m)
        /\ RatLt(analysis_df[j1].quintile, analysis_df[j3].quintile)
        /\ Len(CutBins(<<analysis_df[j1].trailing_12m, analysis_df[j2].trailing_12m,
                         analysis_df[j3].trailing_12m>>, num_buckets)) < num_buckets + 1

\* C3: compute_transitions returns one row per input record less one per
\* distinct instrument.
C3_TransitionCount ==
    Written("quintile_transitions.csv") =>
        Len(transitions) =
            Len(analysis) - Cardinality({analysis[j].ticker : j \in DOMAIN analysis})

\* C4: the files are written in the fixed order (a later one only after
\* every earlier one), none when fetch_data returned an empty price table,
\* and only the price file when process_analysis returned an empty table.
C4_HaltsEarlyOnEmpty ==
    /\ files = SubSeq(FilesOrder, 1, Len(files))
    /\ (pc # "fetch" /\ IsEmpty(prices)) => files = <<>>
    /\ (pc \in {"analysed", "transitions", "summary", "done"} /\ analysis = <<>>)
          => Len(files) <= 1

\* The analysis came back empty: only the price file exists at the end.
C4_Witness ==
    /\ pc = "done"
    /\ ~IsEmpty(prices)
    /\ analysis = <<>>
    /\ files = <<"monthly_prices.csv">>

\* C5: an eligible date whose surviving instruments all have the same
\* trailing_12m contributes no record, and every other eligible date
\* contributes a record for each of its surviving instruments.
C5_DegenerateDateSkipped ==
    Analysed =>
        \A d \in EligibleDates :
            IF ConstantSignal(d)
            THEN RowsAt(analysis, d) = {}
            ELSE {analysis[j].ticker : j \in RowsAt(analysis, d)} = Alive(d)

\* The next_month_ret column of a table.
NextMonthRets(tbl) == [j \in DOMAIN tbl |-> tbl[j].next_month_ret]

\* mean * population of each summary row.
WeightedMeans ==
    [j \in DOMAIN summary |->
        RatMul(summary[j].next_month_ret,
               <<Len(GroupReturns(analysis, summary[j].quintile)), 1>>)]

\* C6: the summary means, weighted by bucket population, give the overall
\* mean of next_month_ret; every record is in exactly one summary row.
C6_SummaryRoundTrip ==
    Written("quintile_performance_summary.csv") =>
        /\ RatDiv(SumRat(WeightedMeans), <<Len(analysis), 1>>)
             = Mean(NextMonthRets(analysis))
        /\ \A j \in DOMAIN analysis :
              Cardinality({r \in DOMAIN summary :
                              summary[r].quintile = analysis[j].quintile}) = 1

\* The signal of instrument t at date d.
Signal(d, t) == trailing_12m.val[d][t]

ThreeDistinct(d) ==
    /\ Cardinality(Alive(d)) = 3
    /\ \A t, u \in Alive(d) : t # u => Signal(d, t) # Signal(d, u)

\* C7: at an eligible date with exactly three surviving instruments of
\* pairwise distinct trailing_12m, the lowest gets bucket 1, the middle
\* one 2 and the highest 3.
C7_ThreeDistinctAscending ==
    Analysed =>
        \A d \in EligibleDates : ThreeDistinct(d) =>
            \A t \in Alive(d) :
                \E j \in RowsOf(analysis, d, t) :
                    analysis[j].quintile =
                        <<1 + Cardinality({u \in Alive(d) :
                                             RatLt(Signal(d, u), Signal(d, t))}), 1>>

C7_Witness ==
    /\ Analysed
    /\ \E d \in EligibleDates :
          /\ ThreeDistinct(d)
          /\ {analysis[j].quintile : j \in RowsAt(analysis, d)} = Buckets

\* The tickers whose download returned data, in list order.
Fetched == SelectSeq(tickers, LAMBDA t : outcome[Pos(tickers, t)] = "data")

\* C8: when fetch_data returns, every ticker has been tried and the price
\* table has exactly the tickers whose download returned data, in the
\* order of the ticker list.
C8_FailedFetchOmitted ==
    pc # "fetch" =>
        /\ \A j \in DOMAIN tickers : outcome[j] # "pending"
        /\ prices.columns = Fetched

\* A failure in the middle of the list, data before and after it.
C8_Witness ==
    /\ pc # "fetch"
    /\ outcome[1] = "data" /\ outcome[2] = "raise"
    /\ outcome[3] = "data" /\ outcome[4] = "empty"
    /\ prices.columns = <<tickers[1], tickers[3]>>

\* Rows of the price table where instrument t has a price.
ObsRows(t) == {r \in DOMAIN prices.index : ~IsNaN(prices.val[prices.index[r]][t])}

Max(S) == CHOOSE m \in S : \A n \in S : n <= m

\* Rows from the first to the last observation of t, both included.
SpanRows(t) == IF ObsRows(t) = {} THEN 0 ELSE Max(ObsRows(t)) - Min(ObsRows(t)) + 1

NoTrailing(t) == \A d \in Range(trailing_12m.index) : IsNaN(trailing_12m.val[d][t])

LaterRecords(r) ==
    {j \in DOMAIN analysis :
        analysis[j].ticker = r.ticker /\ analysis[j].date > r.date}

\* C10: every transition row carries the bucket of the same instrument's
\* record with the smallest later date; an instrument with a single
\* record has no row; the input's row order does not matter.
C10_NextIsAdjacentSameTicker ==
    Written("quintile_transitions.csv") =>
        /\ \A n \in DOMAIN transitions :
              \E j \in LaterRecords(transitions[n]) :
                  /\ \A j2 \in LaterRecords(transitions[n]) :
                        analysis[j].date <= analysis[j2].date
                  /\ transitions[n].next_quintile = analysis[j].quintile
        /\ \A n \in DOMAIN transitions :
              Cardinality({j \in DOMAIN analysis :
                              analysis[j].ticker = transitions[n].ticker}) > 1
        /\ ComputeTransitions(Reverse(analysis)) = transitions

\* Transitions exist, one instrument has three records and another one
\* has a single record.
C10_Witness ==
    /\ Written("quintile_transitions.csv")
    /\ transitions # <<>>
    /\ \E t, u \in Range(prices.columns) :
          /\ Cardinality({j \in DOMAIN analysis : analysis[j].ticker = t}) = 3
          /\ Cardinality({j \in DOMAIN analysis : analysis[j].ticker = u}) = 1

====
